---- MODULE Spec2Model ----
(***************************************************************************)
(* The edit-tag codec of CAMeL-Lab/text-editing (src/edits/edit.py) and    *)
(* the edit-distance gate of src/gec/utils/postprocess.py.                 *)
(*                                                                         *)
(* A Python str is modelled as a sequence of one-character strings, so     *)
(* that "I_[ab]" is <<"I","_","[","a","b","]">>.  Every regular expression *)
(* of the source is modelled by a scanner that matches what the regular    *)
(* expression matches, character by character.                             *)
(***************************************************************************)
EXTENDS Integers, Sequences, FiniteSets, TLC

VARIABLES
    pc,                 \* position of the driver of the specification in use
    aligned_src_chars,  \* Edit.create: the aligned source groups
    aligned_tgt_chars,  \* Edit.create: the aligned target groups
    word_edit,          \* the Edit returned by Edit.create (or its fault)
    tokenized,          \* the pieces the word was tokenized into
    projected,          \* what SubwordEdits.create returned (or its fault)
    applicable,         \* is_applicable of every projected piece
    applied,            \* apply of every projected piece
    tag,                \* a piece-level tag handed to SubwordEdit directly
    piece,              \* the piece handed to SubwordEdit directly
    compressed,         \* compress_edit(tag), then compress_edit of that
    can_apply,          \* is_applicable(piece) of the tag
    edited,             \* apply(piece) of the tag
    cursor,             \* the read cursor of _apply_char_edits when it returned
    src_chars,          \* get_edits: source group
    tgt_chars,          \* get_edits: target group
    group_edit,         \* get_edits: result
    src_sents,          \* postprocess: source sentences
    preds_sents,        \* postprocess: predicted sentences
    gamma,              \* postprocess: threshold
    post_process_out    \* postprocess: result

vars == <<pc, aligned_src_chars, aligned_tgt_chars, word_edit, tokenized, projected,
          applicable, applied, tag, piece, compressed, can_apply, edited, cursor,
          src_chars, tgt_chars, group_edit,
          src_sents, preds_sents, gamma, post_process_out>>

(***************************************************************************)
(* Bounds of the model.                                                    *)
(***************************************************************************)
MaxGroups == 2      \* aligned groups per word
MaxGroupLen == 2    \* characters per aligned group
MaxOps == 3         \* ops per directly supplied tag
MaxPieceLen == 2    \* characters of a directly supplied piece (marker not counted)
MaxSrcLen == 3      \* characters of a source or target group handed to get_edits
MaxSents == 2       \* sentences per postprocess call
MaxGamma == 2       \* largest threshold tried

(***************************************************************************)
(* Python str helpers.                                                     *)
(***************************************************************************)
Min(S) == CHOOSE x \in S : \A y \in S : x <= y

Max(S) == CHOOSE x \in S : \A y \in S : x >= y

RECURSIVE Flatten(_)
\* ''.join(list of str)
Flatten(ss) == IF ss = <<>> THEN <<>> ELSE Head(ss) \o Flatten(Tail(ss))

RECURSIVE Repeat(_, _)
\* s * n
Repeat(s, n) == IF n <= 0 THEN <<>> ELSE s \o Repeat(s, n - 1)

\* s[i:] with i a 0-based Python index (i >= 0)
From(s, i) == SubSeq(s, i + 1, Len(s))

\* s[:-n] for n >= 1
DropLast(s, n) == SubSeq(s, 1, Len(s) - n)

\* s.startswith(p, i-1), i a 1-based position
StartsWithAt(s, i, p) == i + Len(p) - 1 <= Len(s) /\ SubSeq(s, i, i + Len(p) - 1) = p

StartsWith(s, p) == StartsWithAt(s, 1, p)

\* p in s (substring test)
Contains(p, s) == \E i \in 1..(Len(s) - Len(p) + 1) : StartsWithAt(s, i, p)

\* s.strip()
Strip(s) ==
    LET keep == {i \in 1..Len(s) : s[i] # " "}
    IN IF keep = {} THEN <<>> ELSE SubSeq(s, Min(keep), Max(keep))

RECURSIVE SplitFrom(_, _, _)
SplitFrom(s, i, cur) ==
    IF i > Len(s) THEN (IF cur = <<>> THEN <<>> ELSE <<cur>>)
    ELSE IF s[i] = " " THEN (IF cur = <<>> THEN <<>> ELSE <<cur>>) \o SplitFrom(s, i + 1, <<>>)
    ELSE SplitFrom(s, i + 1, Append(cur, s[i]))

\* s.split()
Split(s) == SplitFrom(s, 1, <<>>)

RECURSIVE RemoveMarkerFrom(_, _)
RemoveMarkerFrom(s, i) ==
    IF i > Len(s) THEN <<>>
    ELSE IF StartsWithAt(s, i, <<"#", "#">>) THEN RemoveMarkerFrom(s, i + 2)
    ELSE <<s[i]>> \o RemoveMarkerFrom(s, i + 1)

\* s.replace('##', '')
RemoveMarker(s) == RemoveMarkerFrom(s, 1)

\* '##' in s
HasMarker(s) == Contains(<<"#", "#">>, s)

(***************************************************************************)
(* The regular expressions of edit.py.                                     *)
(***************************************************************************)
\* position of the first ']' at or after i, 0 when there is none: the lazy .*? of X_\[.*?\]
FirstClose(s, i) ==
    LET js == {j \in i..Len(s) : s[j] = "]"}
    IN IF js = {} THEN 0 ELSE Min(js)

\* last position of the run of character c that starts at i: the greedy \]+, D+, K+
RunEnd(s, i, c) ==
    Max({k \in i..Len(s) : \A m \in i..k : s[m] = c})

\* end of a match of X_\[.*?\]+ at i for X = letter, 0 when it does not match there
BracketEnd(s, i, letter) ==
    IF StartsWithAt(s, i, <<letter, "_", "[">>)
    THEN LET c == FirstClose(s, i + 3) IN IF c = 0 THEN 0 ELSE RunEnd(s, c, "]")
    ELSE 0

\* end of the token re.findall takes at i: a bracket op of `letters`, K*/D* when
\* `stars`, a run D+/K+ when `runs`, else the single character
TokenEnd(s, i, letters, stars, runs) ==
    IF s[i] \in letters /\ BracketEnd(s, i, s[i]) # 0 THEN BracketEnd(s, i, s[i])
    ELSE IF stars /\ s[i] \in {"K", "D"} /\ StartsWithAt(s, i + 1, <<"*">>) THEN i + 1
    ELSE IF runs /\ s[i] \in {"K", "D"} THEN RunEnd(s, i, s[i])
    ELSE i

RECURSIVE Tokens(_, _, _, _, _)
Tokens(s, i, letters, stars, runs) ==
    IF i > Len(s) THEN <<>>
    ELSE LET e == TokenEnd(s, i, letters, stars, runs)
         IN <<SubSeq(s, i, e)>> \o Tokens(s, e + 1, letters, stars, runs)

\* re.findall(r'I_\[.*?\]+|A_\[.*?\]+|R_\[.*?\]+|K\*|D\*|.', edit)
CharEdits(edit) == Tokens(edit, 1, {"I", "A", "R"}, TRUE, FALSE)

\* re.findall(r'I_\[.*?\]+|R_\[.*?\]+|D+|K+|.', edit)
EditOps(edit) == Tokens(edit, 1, {"I", "R"}, FALSE, TRUE)

\* re.findall(r'I_\[.*?\]+|R_\[.*?\]+|A_\[.*?\]+|D+|K+|.', edit)
GroupedEdits(edit) == Tokens(edit, 1, {"I", "R", "A"}, FALSE, TRUE)

RECURSIVE FindAppends(_, _)
\* re.findall(r'A_\[.*?\]+', edit): the scan skips what does not match
FindAppends(s, i) ==
    IF i > Len(s) THEN <<>>
    ELSE LET e == BracketEnd(s, i, "A")
         IN IF e = 0 THEN FindAppends(s, i + 1)
            ELSE <<SubSeq(s, i, e)>> \o FindAppends(s, e + 1)

RECURSIVE SubFrom(_, _, _)
SubFrom(letter, s, i) ==
    IF i > Len(s) THEN <<>>
    ELSE LET c == IF StartsWithAt(s, i, <<letter, "_", "[">>) THEN FirstClose(s, i + 3) ELSE 0
         IN IF c = 0 THEN <<s[i]>> \o SubFrom(letter, s, i + 1)
            ELSE SubSeq(s, i + 3, c - 1) \o SubFrom(letter, s, c + 1)

\* re.sub(r'X_\[(.*?)\]', r'\1', s) for X = letter
Payload(letter, s) == SubFrom(letter, s, 1)

\* f'X_[{text}]'
Op(letter, text) == <<letter, "_", "[">> \o text \o <<"]">>

(***************************************************************************)
(* Edit encoder: Edit.create and its helpers.                              *)
(***************************************************************************)
RECURSIVE ScanReplace(_, _, _, _, _)
\* the while loop of get_edits' fallback: [i, j, edit] when it ends
ScanReplace(src, tgt, i, j, edit) ==
    IF i < Len(src) /\ j < Len(tgt)
    THEN IF src[i + 1] # " "
         THEN ScanReplace(src, tgt, i + 1, j + 1, edit \o Op("R", <<tgt[j + 1]>>))
         ELSE ScanReplace(src, tgt, i + 1, j, edit \o <<"M">>)
    ELSE [i |-> i, j |-> j, edit |-> edit]

\* the fallback without its assertion: a short scan returns a partial tag
ReplaceThenDelete_Unchecked(src, tgt) ==
    LET r == ScanReplace(src, tgt, 0, 0, <<>>)
    IN IF r.i < Len(src)
       THEN [ok |-> TRUE, edit |-> r.edit \o Repeat(<<"D">>, Len(From(src, r.i)))]
       ELSE [ok |-> TRUE, edit |-> r.edit]

\* the general fallback of get_edits: the scan, the assertion, the trailing deletes
ReplaceThenDelete(src, tgt) ==
    LET r == ScanReplace(src, tgt, 0, 0, <<>>)
    IN IF r.j # Len(tgt) THEN [ok |-> FALSE, edit |-> <<>>]
       ELSE IF r.i < Len(src)
            THEN [ok |-> TRUE, edit |-> r.edit \o Repeat(<<"D">>, Len(From(src, r.i)))]
            ELSE [ok |-> TRUE, edit |-> r.edit]

\* whether get_edits(src, tgt) reaches its general fallback
ReachesFallback(src, tgt) ==
    /\ tgt # <<>>
    /\ ~Contains(tgt, src)
    /\ ~(Len(Strip(src)) = 1 /\ Len(tgt) = 1)

get_edits(src, tgt) ==
    IF tgt = <<>> THEN [ok |-> TRUE, edit |-> Repeat(<<"D">>, Len(src))]
    ELSE IF Contains(tgt, src)
    THEN [ok |-> TRUE,
          edit |-> [k \in 1..Len(src) |->
                        IF ~Contains(<<src[k]>>, tgt) THEN "D" ELSE "K"]]
    ELSE IF Len(Strip(src)) = 1 /\ Len(tgt) = 1
    THEN [ok |-> TRUE,
          edit |-> Flatten([k \in 1..Len(src) |->
                        IF src[k] = " " THEN <<"M">> ELSE Op("R", <<tgt[1]>>)])]
    ELSE ReplaceThenDelete(src, tgt)

is_merge(aligned_src, aligned_tgt) ==
    Flatten(SelectSeq(aligned_src, LAMBDA c : c # <<" ">>)) = Flatten(aligned_tgt)

_replacments(src, tgt) ==
    IF Len(tgt) = 1 THEN Op("R", tgt)
    ELSE IF Len(src) = Len(tgt)
    THEN Flatten([i \in 1..Len(src) |->
                    IF src[i] = " " THEN <<"M">> \o Op("I", <<tgt[i]>>)
                    ELSE Op("R", <<tgt[i]>>)])
    ELSE Flatten([i \in 1..Len(src) |-> Op("R", <<tgt[i]>>)])
         \o Flatten([i \in 1..(Len(tgt) - Len(src)) |-> Op("I", <<tgt[Len(src) + i]>>)])

\* one iteration of _generate_detailed_edit's loop
GroupEdit(src, tgt) ==
    IF src = tgt
    THEN [ok |-> TRUE, edit |-> IF src = <<" ">> THEN <<"S">> ELSE Repeat(<<"K">>, Len(src))]
    ELSE IF src = <<" ">> /\ tgt = <<>> THEN [ok |-> TRUE, edit |-> <<"M">>]
    ELSE IF src = <<" ">> /\ tgt # <<>> THEN [ok |-> TRUE, edit |-> <<"M">> \o Op("I", tgt)]
    ELSE IF src # <<>> /\ tgt = <<>>
    THEN [ok |-> TRUE, edit |-> [k \in 1..Len(src) |-> IF src[k] # " " THEN "D" ELSE "M"]]
    ELSE IF src = <<>> /\ tgt # <<>> THEN [ok |-> TRUE, edit |-> Op("I", tgt)]
    ELSE IF Len(src) > Len(tgt) THEN get_edits(src, tgt)
    ELSE [ok |-> TRUE, edit |-> _replacments(src, tgt)]

_generate_detailed_edit(aligned_src, aligned_tgt) ==
    LET parts == [k \in 1..Len(aligned_src) |-> GroupEdit(aligned_src[k], aligned_tgt[k])]
    IN [ok |-> \A k \in 1..Len(parts) : parts[k].ok,
        edit |-> Flatten([k \in 1..Len(parts) |-> parts[k].edit])]

\* Edit.create: [ok, word, edit]; ok is FALSE when get_edits' assertion fails
Create(aligned_src, aligned_tgt) ==
    LET aligned_src_word == Flatten(aligned_src)
        made(e) == [ok |-> TRUE, word |-> aligned_src_word, edit |-> e]
    IN IF aligned_src = aligned_tgt THEN made(<<"K">>)
       ELSE IF aligned_src = <<<<>>>> /\ aligned_tgt # <<<<>>>>
       THEN made(Op("I", Flatten(aligned_tgt)))
       ELSE IF aligned_src # <<<<>>>> /\ aligned_tgt = <<<<>>>> THEN made(<<"D">>)
       ELSE IF is_merge(aligned_src, aligned_tgt)
       THEN made([k \in 1..Len(aligned_src) |->
                    IF aligned_src[k] # <<" ">> THEN "K" ELSE "M"])
       ELSE LET d == _generate_detailed_edit(aligned_src, aligned_tgt)
            IN [ok |-> d.ok, word |-> aligned_src_word,
                edit |-> IF d.ok THEN d.edit ELSE <<>>]

(***************************************************************************)
(* Tag compression.                                                        *)
(***************************************************************************)
\* the pending insertions, emitted as one I_[...] when there are any
Flush(insertions) == IF insertions # <<>> THEN <<Op("I", insertions)>> ELSE <<>>

RECURSIVE CompressFrom(_, _, _)
CompressFrom(edits, k, insertions) ==
    IF k > Len(edits) THEN Flush(insertions)
    ELSE IF StartsWith(edits[k], <<"I", "_">>)
    THEN CompressFrom(edits, k + 1, insertions \o Payload("I", edits[k]))
    ELSE Flush(insertions) \o <<edits[k]>> \o CompressFrom(edits, k + 1, <<>>)

compress_insertions(edits) == CompressFrom(edits, 1, <<>>)

compress_edit(edit) == Flatten(compress_insertions(GroupedEdits(edit)))

(***************************************************************************)
(* SubwordEdit.apply and SubwordEdit.is_applicable.                        *)
(***************************************************************************)
RECURSIVE JoinWith(_, _)
\* sep.join(list of str)
JoinWith(ss, sep) ==
    IF ss = <<>> THEN <<>>
    ELSE IF Len(ss) = 1 THEN ss[1]
    ELSE ss[1] \o sep \o JoinWith(Tail(ss), sep)

_apply_append(edit, subword, keep) ==
    LET ops == FindAppends(edit, 1)
        inserts == [k \in 1..Len(ops) |-> Payload("A", ops[k])]
    IN IF keep THEN subword \o <<" ">> \o JoinWith(inserts, <<" ">>)
       ELSE Flatten(inserts)

\* x.startswith('I') or x.startswith('A')
IsInsert(x) == StartsWith(x, <<"I">>) \/ StartsWith(x, <<"A">>)

\* how many of char_edits[edit_idx:] are not inserts (edit_idx 0-based)
TrailingFixed(char_edits, edit_idx) ==
    Len(SelectSeq(From(char_edits, edit_idx), LAMBDA x : ~IsInsert(x)))

\* the run K* keeps of `subword`, the rest of the piece
_apply_keep_star(subword, char_edits, edit_idx) ==
    IF TrailingFixed(char_edits, edit_idx) = 0 THEN subword
    ELSE DropLast(subword, TrailingFixed(char_edits, edit_idx))

\* the length of the run D* deletes of `subword`, the rest of the piece
_apply_delete_star(subword, char_edits, edit_idx) ==
    IF TrailingFixed(char_edits, edit_idx) = 0 THEN Len(subword)
    ELSE Len(DropLast(subword, TrailingFixed(char_edits, edit_idx)))

RECURSIVE ApplyFrom(_, _, _, _, _, _)
\* the loop of _apply_char_edits from its i-th edit (1-based), read cursor idx
\* (0-based).  ok is FALSE when subword[idx] raises IndexError; inside tells
\* whether the cursor stayed within the piece after every edit so far.
ApplyFrom(subword, char_edits, i, idx, out, inside) ==
    IF i > Len(char_edits)
    THEN [ok |-> TRUE, text |-> out, idx |-> idx, inside |-> inside]
    ELSE LET e == char_edits[i]
             next(idx2, out2) ==
                 ApplyFrom(subword, char_edits, i + 1, idx2, out2,
                           inside /\ idx2 <= Len(subword))
         IN IF e = <<"K">>
            THEN IF idx >= Len(subword)
                 THEN [ok |-> FALSE, text |-> out, idx |-> idx, inside |-> FALSE]
                 ELSE next(idx + 1, Append(out, subword[idx + 1]))
            ELSE IF e = <<"D">> THEN next(idx + 1, out)
            ELSE IF StartsWith(e, <<"I">>) THEN next(idx, out \o Payload("I", e))
            ELSE IF StartsWith(e, <<"A">>)
            THEN next(idx, out \o (IF i - 1 # 0 THEN <<" ">> \o Payload("A", e)
                                   ELSE Payload("A", e) \o <<" ">>))
            ELSE IF e = <<"K", "*">>
            THEN LET chars_to_keep == _apply_keep_star(From(subword, idx), char_edits, i)
                 IN next(idx + Len(chars_to_keep), out \o chars_to_keep)
            ELSE IF e = <<"D", "*">>
            THEN next(idx + _apply_delete_star(From(subword, idx), char_edits, i), out)
            ELSE IF StartsWith(e, <<"R">>) THEN next(idx + 1, out \o Payload("R", e))
            ELSE next(idx, out)

_apply_char_edits(subword, char_edits) == ApplyFrom(subword, char_edits, 1, 0, <<>>, TRUE)

\* apply that forgets to put the continuation marker back
Apply_MarkerDropped(edit, subword) ==
    IF edit = <<"K">> THEN [ok |-> TRUE, text |-> subword]
    ELSE IF StartsWith(edit, <<"K", "A">>)
    THEN [ok |-> TRUE, text |-> _apply_append(edit, subword, TRUE)]
    ELSE IF StartsWith(edit, <<"D", "A">>)
    THEN [ok |-> TRUE, text |-> _apply_append(edit, subword, FALSE)]
    ELSE LET r == _apply_char_edits(RemoveMarker(subword), CharEdits(edit))
         IN [ok |-> r.ok, text |-> IF ~r.ok THEN <<>> ELSE r.text]

\* SubwordEdit(.., edit).apply(subword): [ok, text]
Apply(edit, subword) ==
    IF edit = <<"K">> THEN [ok |-> TRUE, text |-> subword]
    ELSE IF StartsWith(edit, <<"K", "A">>)
    THEN [ok |-> TRUE, text |-> _apply_append(edit, subword, TRUE)]
    ELSE IF StartsWith(edit, <<"D", "A">>)
    THEN [ok |-> TRUE, text |-> _apply_append(edit, subword, FALSE)]
    ELSE LET r == _apply_char_edits(RemoveMarker(subword), CharEdits(edit))
         IN [ok |-> r.ok,
             text |-> IF ~r.ok THEN <<>>
                      ELSE IF HasMarker(subword) THEN <<"#", "#">> \o r.text ELSE r.text]

\* char_edits_wo_append_merge of is_applicable
WithoutAppendMerge(char_edits) ==
    SelectSeq(char_edits, LAMBDA e : /\ ~StartsWith(e, <<"A">>)
                                     /\ ~StartsWith(e, <<"M">>)
                                     /\ ~StartsWith(e, <<"I">>))

RECURSIVE ApplicableFrom(_, _, _, _)
\* the loop of is_applicable from its i-th edit (1-based): the final idx
ApplicableFrom(_subword, wo, i, idx) ==
    IF i > Len(wo) THEN idx
    ELSE IF StartsWith(wo[i], <<"R">>) \/ wo[i] \in {<<"K">>, <<"D">>}
    THEN ApplicableFrom(_subword, wo, i + 1, idx + 1)
    ELSE IF wo[i] \in {<<"K", "*">>, <<"D", "*">>}
    THEN IF i = Len(wo) THEN idx + Len(From(_subword, idx))
         ELSE ApplicableFrom(_subword, wo, i + 1, Len(DropLast(_subword, Len(wo) - i)))
    ELSE ApplicableFrom(_subword, wo, i + 1, idx)

\* SubwordEdit(.., edit).is_applicable(subword)
is_applicable(edit, subword) ==
    LET _subword == RemoveMarker(subword)
        wo == WithoutAppendMerge(CharEdits(edit))
    IN IF edit = <<"K">> \/ StartsWith(edit, <<"K", "A">>) THEN TRUE
       ELSE IF Len(_subword) < Len(wo) THEN FALSE
       ELSE ~(ApplicableFrom(_subword, wo, 1, 0) < Len(_subword))

(***************************************************************************)
(* Subword projector: SubwordEdits.create and SubwordEdits._project_edit.  *)
(***************************************************************************)
\* subword_edits[-1] += more
AddToLast(subword_edits, more) ==
    [subword_edits EXCEPT ![Len(subword_edits)] = @ \o more]

\* re.sub(r"(?<!\[)S(?!\])", '', edit)
StripSoftKeeps(edit) ==
    LET keep(i) == \/ edit[i] # "S"
                   \/ (i > 1 /\ edit[i - 1] = "[")
                   \/ (i < Len(edit) /\ edit[i + 1] = "]")
        F[i \in 0..Len(edit)] ==
            IF i = 0 THEN <<>> ELSE IF keep(i) THEN Append(F[i - 1], edit[i]) ELSE F[i - 1]
    IN F[Len(edit)]

Failed(how) == [fault |-> how, subword_edits |-> <<>>]

\* what follows the for loop of _project_edit: the leftover ops and the assertions
ProjectEnd(subwords, edit, subword_edits, idx) ==
    IF idx < Len(edit) /\ subword_edits = <<>> THEN Failed("no_previous_piece")
    ELSE LET final == IF idx < Len(edit) THEN AddToLast(subword_edits, From(edit, idx))
                      ELSE subword_edits
         IN IF Flatten(final) # StripSoftKeeps(edit) THEN Failed("assert_concat")
            ELSE IF Len(final) # Len(subwords) THEN Failed("assert_len")
            ELSE [fault |-> "none", subword_edits |-> final]

RECURSIVE ProjectFrom(_, _, _, _, _, _, _, _, _)
\* the for loop of _project_edit at piece p with subword_len characters of it
\* still to cover; idx is 0-based
ProjectFrom(subwords, edit, p, subword_len, subword_edit, subword_edits, idx, inserts, replaces) ==
    LET go(len2, cur2, acc2, idx2, ins2, reps2) ==
            ProjectFrom(subwords, edit, p, len2, cur2, acc2, idx2, ins2, reps2)
    IN IF subword_len > 0
       THEN IF idx >= Len(edit) THEN Failed("tag_exhausted")
            ELSE IF edit[idx + 1] = "S"
            THEN IF subword_edits = <<>> THEN Failed("no_previous_piece")
                 ELSE go(subword_len, <<>>, AddToLast(subword_edits, subword_edit),
                         idx + 1, inserts, replaces)
            ELSE IF edit[idx + 1] = "I"
            THEN IF inserts = <<>> THEN Failed("pop_from_empty")
                 ELSE go(subword_len, subword_edit \o Head(inserts), subword_edits,
                         idx + Len(Head(inserts)), Tail(inserts), replaces)
            ELSE IF edit[idx + 1] = "R"
            THEN IF replaces = <<>> THEN Failed("pop_from_empty")
                 ELSE go(subword_len - 1, subword_edit \o Head(replaces), subword_edits,
                         idx + Len(Head(replaces)), inserts, Tail(replaces))
            ELSE IF edit[idx + 1] = "M"
            THEN IF subword_edit # <<>> /\ subword_edits = <<>>
                 THEN Failed("no_previous_piece")
                 ELSE go(subword_len, <<"M">>,
                         IF subword_edit # <<>>
                         THEN AddToLast(subword_edits, subword_edit) ELSE subword_edits,
                         idx + 1, inserts, replaces)
            ELSE IF edit[idx + 1] \notin {"K", "D"} THEN Failed("breakpoint")
            ELSE go(subword_len - 1, Append(subword_edit, edit[idx + 1]), subword_edits,
                    idx + 1, inserts, replaces)
       ELSE IF p = Len(subwords)
       THEN ProjectEnd(subwords, edit, Append(subword_edits, subword_edit), idx)
       ELSE ProjectFrom(subwords, edit, p + 1, Len(RemoveMarker(subwords[p + 1])), <<>>,
                        Append(subword_edits, subword_edit), idx, inserts, replaces)

\* _project_edit up to its assertions: [fault, subword_edits], the per-piece tags
\* before compression
ProjectedTags(subwords, edit) ==
    LET edit_ops == EditOps(edit)
        inserts == SelectSeq(edit_ops, LAMBDA op : StartsWith(op, <<"I", "_", "[">>))
        replaces == SelectSeq(edit_ops, LAMBDA op : StartsWith(op, <<"R", "_", "[">>))
    IN IF subwords = <<>> THEN ProjectEnd(subwords, edit, <<>>, 0)
       ELSE ProjectFrom(subwords, edit, 1, Len(RemoveMarker(subwords[1])), <<>>,
                        <<>>, 0, inserts, replaces)

\* SubwordEdits._project_edit: [fault, subword_edits], the per-piece tags compressed
_project_edit(subwords, edit) ==
    LET r == ProjectedTags(subwords, edit)
    IN [fault |-> r.fault,
        subword_edits |-> [k \in 1..Len(r.subword_edits) |->
                              compress_edit(r.subword_edits[k])]]

\* SubwordEdits.create once the word is tokenized into `pieces`:
\* [fault, subwords, edits], edits[k] the tag of the k-th SubwordEdit
CreateSubwordEdits(pieces, edit) ==
    IF Len(pieces) = 0 /\ StartsWith(edit, <<"I">>)
    THEN [fault |-> "none", subwords |-> <<<<>>>>, edits |-> <<compress_edit(edit)>>]
    ELSE IF edit = <<"K">>
    THEN [fault |-> "none", subwords |-> pieces, edits |-> [k \in 1..Len(pieces) |-> <<"K">>]]
    ELSE LET r == _project_edit(pieces, edit)
             kept == SelectSeq(pieces, LAMBDA wp : wp # <<" ">>)
         IN IF r.fault # "none" THEN [fault |-> r.fault, subwords |-> <<>>, edits |-> <<>>]
            ELSE IF Len(kept) # Len(r.subword_edits)
            THEN [fault |-> "assert_len", subwords |-> <<>>, edits |-> <<>>]
            ELSE [fault |-> "none", subwords |-> pieces, edits |-> r.subword_edits]

RECURSIVE Continuations(_)
\* the ways a tokenizer may cut the rest of a word into continuation pieces
Continuations(w) ==
    IF w = <<>> THEN {<<>>}
    ELSE UNION {{<<(<<"#", "#">> \o SubSeq(w, 1, k))>> \o rest :
                    rest \in Continuations(SubSeq(w, k + 1, Len(w)))} : k \in 1..Len(w)}

\* the ways a tokenizer may cut one word into pieces
WordPieces(w) ==
    UNION {{<<SubSeq(w, 1, k)>> \o rest :
               rest \in Continuations(SubSeq(w, k + 1, Len(w)))} : k \in 1..Len(w)}

RECURSIVE PiecesOf(_)
PiecesOf(words) ==
    IF words = <<>> THEN {<<>>}
    ELSE {first \o rest : first \in WordPieces(Head(words)), rest \in PiecesOf(Tail(words))}

\* the flattened pieces a tokenizer may return for aligned_src_word
Tokenizations(aligned_src_word) == PiecesOf(Split(aligned_src_word))

(***************************************************************************)
(* Spec: the training-data pipeline.  The aligner hands one aligned word   *)
(* to Edit.create, the word is tokenized, SubwordEdits.create projects the *)
(* tag onto the pieces, and every piece is validated and applied.          *)
(***************************************************************************)
\* the characters of the aligned words
Chars == {"a", "b", " "}

\* the strings of at most n characters of cs
Strs(cs, n) == UNION {[1..k -> cs] : k \in 0..n}

\* an aligned group: a literal run, the empty placeholder, or a space
Groups == Strs(Chars, MaxGroupLen)

None == <<>>

\* the variables each specification leaves alone
CodecVars == <<aligned_src_chars, aligned_tgt_chars, word_edit, tokenized, projected,
               applicable, applied>>

TagVars == <<tag, piece, compressed, can_apply, edited, cursor>>

GroupVars == <<src_chars, tgt_chars, group_edit>>

PostVars == <<src_sents, preds_sents, gamma, post_process_out>>

Blank ==
    /\ aligned_src_chars = None /\ aligned_tgt_chars = None /\ word_edit = None
    /\ tokenized = None /\ projected = None /\ applicable = None /\ applied = None
    /\ tag = None /\ piece = None /\ compressed = None /\ can_apply = None
    /\ edited = None /\ cursor = None
    /\ src_chars = None /\ tgt_chars = None /\ group_edit = None
    /\ src_sents = None /\ preds_sents = None /\ gamma = 0 /\ post_process_out = None

Init == pc = "start" /\ Blank

\* Edit.create(aligned_src_chars, aligned_tgt_chars)
Encode ==
    /\ pc = "start"
    /\ \E n \in 1..MaxGroups :
         \E S \in [1..n -> Groups], T \in [1..n -> Groups] :
            /\ aligned_src_chars' = S
            /\ aligned_tgt_chars' = T
            /\ word_edit' = Create(S, T)
            /\ pc' = IF Create(S, T).ok THEN "encoded" ELSE "create_failed"
    /\ UNCHANGED <<tokenized, projected, applicable, applied, TagVars, GroupVars, PostVars>>

\* SubwordEdits.create(word, edit, tokenizer): tokenizer None splits on spaces,
\* a tokenizer may also cut every word into continuation pieces
Project ==
    /\ pc = "encoded"
    /\ \E pieces \in Tokenizations(word_edit.word) :
            /\ tokenized' = pieces
            /\ projected' = CreateSubwordEdits(pieces, word_edit.edit)
            /\ pc' = IF CreateSubwordEdits(pieces, word_edit.edit).fault = "none"
                     THEN "projected" ELSE "project_failed"
    /\ UNCHANGED <<aligned_src_chars, aligned_tgt_chars, word_edit, applicable, applied,
                   TagVars, GroupVars, PostVars>>

\* SubwordEdit.is_applicable of every projected piece
Validate ==
    /\ pc = "projected"
    /\ applicable' = [k \in 1..Len(projected.edits) |->
                         is_applicable(projected.edits[k], projected.subwords[k])]
    /\ pc' = "validated"
    /\ UNCHANGED <<aligned_src_chars, aligned_tgt_chars, word_edit, tokenized, projected,
                   applied, TagVars, GroupVars, PostVars>>

\* SubwordEdit.apply of every projected piece
ApplyPieces ==
    /\ pc = "validated"
    /\ applied' = [k \in 1..Len(projected.edits) |->
                      Apply(projected.edits[k], projected.subwords[k])]
    /\ pc' = "applied"
    /\ UNCHANGED <<aligned_src_chars, aligned_tgt_chars, word_edit, tokenized, projected,
                   applicable, TagVars, GroupVars, PostVars>>

Next == Encode \/ Project \/ Validate \/ ApplyPieces

Spec == Init /\ [][Next]_vars

(***************************************************************************)
(* Claims on the pipeline.                                                 *)
(***************************************************************************)
\* the texts apply returned, in piece order
AppliedTexts == [k \in 1..Len(applied) |-> applied[k].text]

\* the word was tokenized by the identity tokenizer: whole-word pieces
IdentityTokenized == tokenized = Split(word_edit.word)

\* C1: round trip.  For every aligned pair, the tag of Edit.create, projected onto
\* the whole-word pieces of the source word and applied to each piece, reproduces
\* the target word, the concatenation of the target groups.
C1_RoundTrip ==
    (pc = "applied" /\ IdentityTokenized)
        => /\ \A k \in 1..Len(applied) : applied[k].ok
           /\ Flatten(AppliedTexts) = Flatten(aligned_tgt_chars)

\* C2: every SubwordEdit that SubwordEdits.create returns for a tag of Edit.create,
\* under every tokenization, is applicable to its piece, and apply reads no
\* character outside the piece.
C2_ProjectedApplicable ==
    /\ pc \in {"validated", "applied"} => \A k \in 1..Len(applicable) : applicable[k]
    /\ pc = "applied" => \A k \in 1..Len(applied) : applied[k].ok

\* SubwordEdits.create was called on the encoded word
ProjectCalled == pc \in {"projected", "project_failed", "validated", "applied"}

\* C4: SubwordEdits.create terminates normally and returns one entry per piece, in
\* piece order, when there are n >= 1 pieces; one synthetic empty-piece entry is
\* returned only for zero pieces and a pure insertion.
C4_OneEntryPerPiece ==
    ProjectCalled =>
        /\ Len(tokenized) >= 1 =>
              /\ projected.fault = "none"
              /\ Len(projected.edits) = Len(tokenized)
              /\ projected.subwords = tokenized
        /\ (Len(tokenized) = 0 /\ projected.fault = "none") =>
              \/ projected.edits = <<>>
              \/ /\ Len(projected.edits) = 1
                 /\ projected.subwords = <<<<>>>>
                 /\ EditOps(word_edit.edit) = <<word_edit.edit>>
                 /\ StartsWith(word_edit.edit, <<"I", "_", "[">>)

\* the characters of the source word a tag accounts for: one per K, D, M, S and
\* R_[..] op, none per I_[..] (Edit.create writes no K*, D* or A_[..])
Consumed(edit) ==
    Len(SelectSeq(CharEdits(edit),
                  LAMBDA e : e \in {<<"K">>, <<"D">>, <<"M">>, <<"S">>}
                             \/ StartsWith(e, <<"R", "_", "[">>)))

\* C7: the tag of every Edit that Edit.create returns accounts for exactly the
\* characters of the Edit's source word.  Read in the claim's favour: the soft keep
\* S counts as the space it marks, and the whole-word tags K and D count as the
\* whole word.
C7_TagConsumesWord ==
    (pc # "start" /\ word_edit.ok)
        => \/ word_edit.edit \in {<<"K">>, <<"D">>}
           \/ Consumed(word_edit.edit) = Len(word_edit.word)

\* SubwordEdits.create handed the tag and at least one piece to _project_edit
ProjectEditRan ==
    /\ ProjectCalled
    /\ Len(tokenized) >= 1
    /\ word_edit.edit # <<"K">>

\* C8: on every tag and piece sequence _project_edit runs on, an S or M flush and the
\* leftover ops find a previous (last) piece to land on, and the per-piece tags
\* concatenated in piece order are the word tag without its soft keeps.
C8_ProjectionConserves ==
    ProjectEditRan =>
        LET r == ProjectedTags(tokenized, word_edit.edit)
        IN /\ r.fault \notin {"no_previous_piece", "assert_concat"}
           /\ r.fault = "none" =>
                 Flatten(r.subword_edits) = StripSoftKeeps(word_edit.edit)

(***************************************************************************)
(* SpecTag: a predicted tag and a piece handed to SubwordEdit directly, as *)
(* at inference time, and to compress_edit.                                *)
(***************************************************************************)
\* the ops predicted tags are built from
TagOps ==
    {<<"K">>, <<"D">>, <<"M">>, <<"K", "*">>, <<"D", "*">>,
     Op("I", <<"a">>), Op("I", <<"]">>), Op("I", <<"#">>), Op("R", <<"b">>), Op("A", <<"a">>)}

Tags == {Flatten(ops) : ops \in Strs(TagOps, MaxOps)}

\* the characters of a piece, in order
Letters == <<"a", "b", "c", "d">>

\* pieces, with and without the continuation marker
Pieces == {m \o SubSeq(Letters, 1, n) : m \in {<<>>, <<"#", "#">>}, n \in 0..MaxPieceLen}

\* the tag is applied by _apply_char_edits (not 'K', 'KA..', 'DA..')
CharLevel(edit) ==
    /\ edit # <<"K">>
    /\ ~StartsWith(edit, <<"K", "A">>)
    /\ ~StartsWith(edit, <<"D", "A">>)

PickTag ==
    /\ pc = "start"
    /\ \E t \in Tags, p \in Pieces : tag' = t /\ piece' = p
    /\ pc' = "picked"
    /\ UNCHANGED <<compressed, can_apply, edited, cursor, CodecVars, GroupVars, PostVars>>

\* compress_edit(tag)
CompressTag ==
    /\ pc = "picked"
    /\ compressed' = <<compress_edit(tag)>>
    /\ pc' = "compressed"
    /\ UNCHANGED <<tag, piece, can_apply, edited, cursor, CodecVars, GroupVars, PostVars>>

\* compress_edit of the compressed tag
CompressAgain ==
    /\ pc = "compressed"
    /\ compressed' = Append(compressed, compress_edit(compressed[1]))
    /\ pc' = "recompressed"
    /\ UNCHANGED <<tag, piece, can_apply, edited, cursor, CodecVars, GroupVars, PostVars>>

\* SubwordEdit(piece, piece, tag).is_applicable(piece)
ValidateTag ==
    /\ pc = "picked"
    /\ can_apply' = is_applicable(tag, piece)
    /\ pc' = "tag_validated"
    /\ UNCHANGED <<tag, piece, compressed, edited, cursor, CodecVars, GroupVars, PostVars>>

\* SubwordEdit(piece, piece, tag).apply(piece), whatever is_applicable said
ApplyTag ==
    /\ pc = "tag_validated"
    /\ edited' = Apply(tag, piece)
    /\ cursor' = IF CharLevel(tag)
                 THEN LET r == _apply_char_edits(RemoveMarker(piece), CharEdits(tag))
                      IN [idx |-> r.idx, inside |-> r.inside]
                 ELSE None
    /\ pc' = "tag_applied"
    /\ UNCHANGED <<tag, piece, compressed, can_apply, CodecVars, GroupVars, PostVars>>

NextTag == PickTag \/ CompressTag \/ CompressAgain \/ ValidateTag \/ ApplyTag

SpecTag == Init /\ [][NextTag]_vars

\* C3: for a tag other than 'K' and 'KA..', is_applicable(piece) and apply agree on
\* the characters consumed: when is_applicable(piece) is true, apply's read cursor
\* stays inside the piece at every step and ends at the piece's length, marker
\* stripped, K* and D* taking the same run in both walks.  (The claim states an
\* equivalence; this is the half a guard before apply relies on.  'DA..' tags move
\* no cursor and are left out.)
C3_ApplicableImpliesCursorFits ==
    (pc = "tag_applied" /\ CharLevel(tag) /\ can_apply)
        => (cursor.inside /\ cursor.idx = Len(RemoveMarker(piece)))

\* C5: compress_edit(compress_edit(tag)) = compress_edit(tag) for every tag.
C5_CompressIdempotent ==
    pc = "recompressed" => compressed[2] = compressed[1]

\* C6 as stated: for every tag, 'K', 'KA..' and 'DA..' included, the text apply
\* returns for a piece prefixed by '##' begins with '##'.
C6_MarkerKeptByEveryTag ==
    (pc = "tag_applied" /\ edited.ok /\ StartsWith(piece, <<"#", "#">>))
        => StartsWith(edited.text, <<"#", "#">>)

\* C6 amended: for every tag that does not start with 'DA', the text apply returns
\* for a piece prefixed by '##' begins with '##'; and for a piece without the marker
\* and a tag whose literals hold no '#', the text holds no '#': no marker is added.
C6_MarkerKept ==
    (pc = "tag_applied" /\ edited.ok)
        => /\ (StartsWith(piece, <<"#", "#">>) /\ ~StartsWith(tag, <<"D", "A">>))
                  => StartsWith(edited.text, <<"#", "#">>)
           /\ (~Contains(<<"#">>, piece) /\ ~Contains(<<"#">>, tag))
                  => ~Contains(<<"#">>, edited.text)

\* a marked piece was edited by a character-level tag and kept its marker with a
\* changed text
C6_Witness ==
    /\ pc = "tag_applied"
    /\ edited.ok
    /\ CharLevel(tag)
    /\ StartsWith(piece, <<"#", "#">>)
    /\ edited.text # piece
    /\ StartsWith(edited.text, <<"#", "#">>)

(***************************************************************************)
(* SpecGroup: one iteration of _generate_detailed_edit's loop, on one      *)
(* aligned (source group, target group) pair.                              *)
(***************************************************************************)
EncodeGroup ==
    /\ pc = "start"
    /\ \E src \in Strs(Chars, MaxSrcLen), tgt \in Strs(Chars, MaxSrcLen) :
            /\ src_chars' = src
            /\ tgt_chars' = tgt
            /\ group_edit' = GroupEdit(src, tgt)
            /\ pc' = IF GroupEdit(src, tgt).ok THEN "group_encoded" ELSE "group_failed"
    /\ UNCHANGED <<CodecVars, TagVars, PostVars>>

NextGroup == EncodeGroup

SpecGroup == Init /\ [][NextGroup]_vars

\* the group pair was handed to get_edits (line 65) and reached its general fallback
ViaFallback ==
    /\ pc \in {"group_encoded", "group_failed"}
    /\ src_chars # tgt_chars
    /\ src_chars # <<" ">>
    /\ tgt_chars # <<>>
    /\ Len(src_chars) > Len(tgt_chars)
    /\ ReachesFallback(src_chars, tgt_chars)

\* the number of characters of s other than the space
NonSpaces(s) == Len(SelectSeq(s, LAMBDA c : c # " "))

\* how many source characters the scan passes to use up the whole target
Scanned == Min({n \in 0..Len(src_chars) :
                   NonSpaces(SubSeq(src_chars, 1, n)) = Len(tgt_chars)})

\* the tag holds one R_[c] per target character in target order, one M per scanned
\* source space, one D per leftover source character, the deletes last
FallbackShape ==
    LET ops == CharEdits(group_edit.edit)
        count(x) == Len(SelectSeq(ops, LAMBDA e : e = x))
    IN /\ SelectSeq(ops, LAMBDA e : StartsWith(e, <<"R">>))
              = [j \in 1..Len(tgt_chars) |-> Op("R", <<tgt_chars[j]>>)]
       /\ count(<<"M">>) = Scanned - Len(tgt_chars)
       /\ count(<<"D">>) = Len(src_chars) - Scanned
       /\ Len(ops) = Len(tgt_chars) + count(<<"M">>) + count(<<"D">>)
       /\ \A k \in 1..Len(ops) : k > Scanned <=> ops[k] = <<"D">>

ArabicDigits == <<"ar0", "ar1", "ar2", "ar3", "ar4", "ar5", "ar6", "ar7", "ar8", "ar9">>

AsciiDigits == <<"0", "1", "2", "3", "4", "5", "6", "7", "8", "9">>

\* what \d matches
IsDigit(c) == \E i \in 1..10 : c = ArabicDigits[i] \/ c = AsciiDigits[i]

\* DIGIT_MAPPER.get(c, c)
DIGIT_MAPPER(c) ==
    IF \E i \in 1..10 : c = ArabicDigits[i]
    THEN AsciiDigits[CHOOSE i \in 1..10 : c = ArabicDigits[i]]
    ELSE c

\* characters of the class [puncs] among those the model writes: string.punctuation
\* holds '.', '&' and ';', and the entity '&amp;' adds the letters a, m and p
Puncs == {".", "&", ";", "a", "m", "p"}

norm_digits(string) ==
    LET s == IF \E i \in 1..Len(string) : IsDigit(string[i])
             THEN [i \in 1..Len(string) |-> DIGIT_MAPPER(string[i])]
             ELSE <<>>
    IN IF s # <<>> THEN s ELSE string

\* pnx_re.sub(r' \1 ', line): a punctuation mark not followed by a digit is spaced
SpacePuncs(line) ==
    Flatten([i \in 1..Len(line) |->
                IF line[i] \in Puncs /\ ~(i < Len(line) /\ IsDigit(line[i + 1]))
                THEN <<" ", line[i], " ">> ELSE <<line[i]>>])

\* space_re.sub(' ', line): runs of spaces become one space
SqueezeSpaces(line) ==
    LET F[i \in 0..Len(line)] ==
            IF i = 0 THEN <<>>
            ELSE IF line[i] = " " /\ i > 1 /\ line[i - 1] = " " THEN F[i - 1]
            ELSE Append(F[i - 1], line[i])
    IN F[Len(line)]

\* pnx_tokenize of one line
pnx_tokenize(line) == Strip(norm_digits(SqueezeSpaces(SpacePuncs(Strip(line)))))

Min3(a, b, c) == Min({a, b, c})

\* editdistance.distance(a, b): the Levenshtein distance
EditDistance(a, b) ==
    LET D[i \in 0..Len(a), j \in 0..Len(b)] ==
            IF i = 0 THEN j
            ELSE IF j = 0 THEN i
            ELSE Min3(D[i - 1, j] + 1, D[i, j - 1] + 1,
                      D[i - 1, j - 1] + (IF a[i] = b[j] THEN 0 ELSE 1))
    IN D[Len(a), Len(b)]

\* postprocess that keeps a prediction at distance exactly gamma
postprocess_Exceeds(srcs, preds, g) ==
    LET tokenized_preds == [i \in 1..Len(preds) |-> pnx_tokenize(preds[i])]
    IN [i \in 1..Len(srcs) |->
           IF EditDistance(srcs[i], tokenized_preds[i]) > g
           THEN srcs[i] ELSE tokenized_preds[i]]

\* postprocess(src_sents, preds_sents, gamma=g): post_process_out
postprocess(srcs, preds, g) ==
    LET tokenized_preds == [i \in 1..Len(preds) |-> pnx_tokenize(preds[i])]
    IN [i \in 1..Len(srcs) |->
           IF EditDistance(srcs[i], tokenized_preds[i]) >= g
           THEN srcs[i] ELSE tokenized_preds[i]]

\* the sentences tried: letters, a punctuation mark after a letter, a punctuation
\* mark before a digit, an Arabic-Indic digit, a tokenized sentence
Sents ==
    {<<>>, <<"x">>, <<"x", "x">>, <<"x", ".">>, <<".", "ar3">>, <<"x", " ", ".">>}

Postprocess ==
    /\ pc = "start"
    /\ \E n \in 0..MaxSents, g \in 0..MaxGamma :
         \E srcs \in [1..n -> Sents], preds \in [1..n -> Sents] :
            /\ src_sents' = srcs
            /\ preds_sents' = preds
            /\ gamma' = g
            /\ post_process_out' = postprocess(srcs, preds, g)
    /\ pc' = "post_done"
    /\ UNCHANGED <<CodecVars, TagVars, GroupVars>>

NextPost == Postprocess

SpecPost == Init /\ [][NextPost]_vars

\* the edit distance between source i and the tokenized prediction i
Dist(i) == EditDistance(src_sents[i], pnx_tokenize(preds_sents[i]))

\* C10 as stated: the output is as long as the input; entry i is the source sentence
\* when the distance exceeds gamma and the tokenized prediction otherwise, a
\* distance equal to gamma included.
C10_GateExceeds ==
    pc = "post_done" =>
        /\ Len(post_process_out) = Len(src_sents)
        /\ \A i \in 1..Len(src_sents) :
              post_process_out[i] = IF Dist(i) > gamma THEN src_sents[i]
                                    ELSE pnx_tokenize(preds_sents[i])

\* C10 amended: the output is as long as the input; entry i is the source sentence
\* when the distance is at least gamma (a distance equal to gamma rejects the
\* prediction) and the tokenized prediction otherwise.
C10_GateAtLeast ==
    pc = "post_done" =>
        /\ Len(post_process_out) = Len(src_sents)
        /\ \A i \in 1..Len(src_sents) :
              post_process_out[i] = IF Dist(i) >= gamma THEN src_sents[i]
                                    ELSE pnx_tokenize(preds_sents[i])

\* one call both rejected a prediction at distance exactly gamma and accepted a
\* tokenized prediction that differs from the raw one
C10_Witness ==
    /\ pc = "post_done"
    /\ \E i \in 1..Len(src_sents) :
          /\ Dist(i) = gamma
          /\ src_sents[i] # pnx_tokenize(preds_sents[i])
          /\ post_process_out[i] = src_sents[i]
    /\ \E i \in 1..Len(src_sents) :
          /\ Dist(i) < gamma
          /\ pnx_tokenize(preds_sents[i]) # preds_sents[i]
          /\ post_process_out[i] = pnx_tokenize(preds_sents[i])

====
